---- MODULE Spec2Model ----
(***************************************************************************)
(* Model of Magnum::Player::ImagePlayer (src/player/ImagePlayer.cpp): the  *)
(* image-viewing screen with its pan / zoom / reset view state, the        *)
(* texture and the overlay label.                                          *)
(*                                                                         *)
(* Float values are modelled as exact rationals << numerator, denominator  *)
(* >> in lowest terms with a positive denominator; float rounding is not   *)
(* modelled.  Strings are sequences of one-character strings.              *)
(***************************************************************************)
EXTENDS Integers, Sequences, FiniteSets, TLC

(* ------------------------------ bounds -------------------------------- *)

\* Number of pan / zoom steps explored in one behaviour.
MaxViewOps == 2

(* --------------------------- Float arithmetic -------------------------- *)

Abs(x) == IF x < 0 THEN -x ELSE x

RECURSIVE Gcd(_, _)
Gcd(a, b) == IF b = 0 THEN a ELSE Gcd(b, a % b)

\* The float n/d.
Float(n, d) ==
    LET g == Gcd(Abs(n), Abs(d))
        s == IF d < 0 THEN -1 ELSE 1
    IN  << (s * n) \div g, (s * d) \div g >>

FAdd(a, b) == Float(a[1] * b[2] + b[1] * a[2], a[2] * b[2])
FNeg(a) == << -a[1], a[2] >>
FSub(a, b) == FAdd(a, FNeg(b))
FMul(a, b) == Float(a[1] * b[1], a[2] * b[2])
FDiv(a, b) == Float(a[1] * b[2], a[2] * b[1])

Zero == Float(0, 1)
One == Float(1, 1)

(* ------------------------------- Vector2 ------------------------------- *)

\* Vector2{Vector2i}: the integer vector converted to floats.
Vector2(v) == << Float(v[1], 1), Float(v[2], 1) >>

\* Vector2{f}: both components set to f.
Vector2Fill(f) == << f, f >>

VAdd(a, b) == << FAdd(a[1], b[1]), FAdd(a[2], b[2]) >>
VSub(a, b) == << FSub(a[1], b[1]), FSub(a[2], b[2]) >>
VNeg(a) == << FNeg(a[1]), FNeg(a[2]) >>
\* Component-wise product and quotient of two vectors.
VMul(a, b) == << FMul(a[1], b[1]), FMul(a[2], b[2]) >>
VDiv(a, b) == << FDiv(a[1], b[1]), FDiv(a[2], b[2]) >>
\* vector / scalar
VDivScalar(a, f) == << FDiv(a[1], f), FDiv(a[2], f) >>

\* Vector2::yScale(s) == (1, s)
YScale(s) == << One, s >>

(* ------------------------------- Matrix3 ------------------------------- *)

\* A Matrix3 is column-major: m[c][r] is column c, row r.
Matrix3Identity ==
    << << One, Zero, Zero >>, << Zero, One, Zero >>, << Zero, Zero, One >> >>

Translation(v) ==
    << << One, Zero, Zero >>, << Zero, One, Zero >>, << v[1], v[2], One >> >>

Scaling(v) ==
    << << v[1], Zero, Zero >>, << Zero, v[2], Zero >>, << Zero, Zero, One >> >>

\* Matrix3::projection(size) == scaling(2/size)
Projection(size) == Scaling(VDiv(Vector2Fill(Float(2, 1)), size))

\* a*b
MatMul(a, b) ==
    [c \in 1..3 |->
        [r \in 1..3 |->
            FAdd(FAdd(FMul(a[1][r], b[c][1]), FMul(a[2][r], b[c][2])),
                 FMul(a[3][r], b[c][3]))]]

(* ------------------------------- strings ------------------------------- *)

Digit(d) == << "0", "1", "2", "3", "4", "5", "6", "7", "8", "9" >>[d + 1]

\* "{}" formatting of a non-negative integer: its decimal digits.
RECURSIVE FormatInt(_)
FormatInt(n) ==
    IF n < 10 THEN << Digit(n) >>
    ELSE FormatInt(n \div 10) \o << Digit(n % 10) >>

\* Index of the last '/' of s, 0 when there is none (find_last_of).
RECURSIVE FindLastSlash(_, _)
FindLastSlash(s, i) ==
    IF i = 0 THEN 0
    ELSE IF s[i] = "/" THEN i ELSE FindLastSlash(s, i - 1)

\* Utility::Directory::filename(): what follows the last '/'.
DirectoryFilename(path) ==
    SubSeq(path, FindLastSlash(path, Len(path)) + 1, Len(path))

\* std::string::substr(0, n)
Substr0(s, n) == SubSeq(s, 1, IF Len(s) < n THEN Len(s) ELSE n)

\* Debug << PixelFormat
PixelFormatName(f) ==
    CASE f = "RGBA8Unorm" ->
           <<"P","i","x","e","l","F","o","r","m","a","t",":",":",
             "R","G","B","A","8","U","n","o","r","m">>
      [] f = "R8Unorm" ->
           <<"P","i","x","e","l","F","o","r","m","a","t",":",":",
             "R","8","U","n","o","r","m">>

(* ------------------------------- inputs -------------------------------- *)

\* Window size and framebuffer size of the application, before and after a
\* resize (the second one is a HiDPI window).
WindowConfigs ==
    { [windowSize |-> << 4, 2 >>, framebufferSize |-> << 4, 2 >>],
      [windowSize |-> << 2, 4 >>, framebufferSize |-> << 4, 8 >>] }

Keys == { "NumZero", "Space" }

\* MouseMoveEvent::relativePosition()
RelativePositions == { << 1, -2 >> }

\* MouseScrollEvent::position()
ScrollPositions == { << 3, 0 >> }

\* MouseScrollEvent::offset().y()
ScrollOffsets == { Float(0, 1), Float(-1, 1) }

\* What importer.image2D(0) delivers when no image can be imported.
NullOpt == [present |-> FALSE, size |-> << 0, 0 >>, format |-> "none"]

\* A short file name in nested directories.
PathNested == <<"a","/","b","/","d","o","g",".","j","p","g">>

\* A file name of 40 characters, without a directory.
PathLong ==
    <<"a","b","c","d","e","f","g","h","i","j","k","l","m","n","o","p","q",
      "r","s","t","u","v","w","x","y","z","0","1","2","3","4","5","6","7",
      "8","9",".","p","n","g">>

\* The files load() is called with: the filename and what the importer that
\* has the file opened delivers as image2D(0).
Files ==
    { [filename |-> PathNested,
       image |-> [present |-> TRUE, size |-> << 2, 2 >>,
                  format |-> "RGBA8Unorm"]],
      [filename |-> PathLong,
       image |-> [present |-> TRUE, size |-> << 12, 6 >>,
                  format |-> "R8Unorm"]],
      [filename |-> PathNested, image |-> NullOpt] }

(* -------------------------------- state -------------------------------- *)

VARIABLES
    transformation,   \* _transformation
    projection,       \* _projection
    imageSize,        \* _imageSize
    imageInfo,        \* _imageInfo
    texture,          \* _texture
    baseUiPlane,      \* _baseUiPlane->imageInfo: the label's text, visibility
    renderer,         \* GL::Renderer state: depth test, blending, blend func
    windowSize,       \* application()->windowSize()
    framebufferSize,  \* application()->framebufferSize()
    controlsVisible,  \* controlsVisible()
    event,            \* the event or call being handled, with its inputs
    accepted,         \* event.isAccepted() when the handler returns
    redrawRequested,  \* whether the handler called redraw()
    drawLog,          \* what the handler drew, in order
    viewOps           \* pan / zoom steps taken so far

view == << transformation, projection, imageSize, imageInfo >>

vars == << transformation, projection, imageSize, imageInfo, texture,
           baseUiPlane, renderer, windowSize, framebufferSize,
           controlsVisible, event, accepted, redrawRequested, drawLog,
           viewOps >>

BaseEvent ==
    [kind |-> "none", key |-> "", uiHandled |-> FALSE, left |-> FALSE,
     position |-> << 0, 0 >>, relativePosition |-> << 0, 0 >>,
     offsetY |-> Zero, filename |-> << >>, image |-> NullOpt,
     windowSize |-> << 0, 0 >>, framebufferSize |-> << 0, 0 >>,
     visible |-> FALSE]

\* GL::Texture2D{NoCreate}
NoCreate ==
    [created |-> FALSE, magnificationFilter |-> "", minificationFilter |-> "",
     wrapping |-> "", storage |-> << 0, 0 >>, image |-> NullOpt]

\* BaseUiPlane{ui}: the imageInfo label is created with the text "", shown.
BaseUiPlane == [text |-> << >>, visible |-> TRUE]

\* The GL::Renderer state of a new GL context: depth test and blending
\* disabled, blend function (One, Zero).
GLInitialState ==
    [depthTest |-> FALSE, blending |-> FALSE,
     blendFunction |-> << "One", "Zero" >>]

\* ImagePlayer::ImagePlayer
Init ==
    /\ \E c \in WindowConfigs :
          /\ c.windowSize = << 4, 2 >>
          /\ windowSize = c.windowSize
          /\ framebufferSize = c.framebufferSize
          /\ projection = Projection(Vector2(c.framebufferSize))
    /\ transformation = Matrix3Identity
    /\ imageSize = << 0, 0 >>
    /\ imageInfo = << >>
    /\ texture = NoCreate
    /\ baseUiPlane = BaseUiPlane
    /\ renderer = GLInitialState
    /\ controlsVisible = TRUE
    /\ event = BaseEvent
    /\ accepted = FALSE
    /\ redrawRequested = FALSE
    /\ drawLog = << >>
    /\ viewOps = 0

(* ------------------------------ operations ----------------------------- *)

\* A faulty variant of DefaultTransformation: the division by two is missing.
MutDefaultTransformationFullSize(size) == Scaling(Vector2(size))

\* Matrix3::scaling(Vector2{size}/2.0f): the image at 1:1 scale, centered.
DefaultTransformation(size) == Scaling(VDivScalar(Vector2(size), Float(2, 1)))

\* A faulty variant of unproject: the origin is not moved to the window's center.
MutUnprojectNoCenter(windowPosition) ==
    VMul(VMul(VDiv(Vector2(windowPosition), Vector2(windowSize)),
              Vector2(framebufferSize)),
         YScale(Float(-1, 1)))

\* ImagePlayer::unproject
unproject(windowPosition) ==
    VMul(VMul(VSub(VDiv(Vector2(windowPosition), Vector2(windowSize)),
                   Vector2Fill(Float(1, 2))),
              Vector2(framebufferSize)),
         YScale(Float(-1, 1)))

\* A faulty variant of unprojectRelative: Y is not flipped.
MutUnprojectRelativeNoFlip(relativeWindowPosition) ==
    VDiv(VMul(Vector2(relativeWindowPosition), Vector2(framebufferSize)),
         Vector2(windowSize))

\* ImagePlayer::unprojectRelative
unprojectRelative(relativeWindowPosition) ==
    VDiv(VMul(VMul(Vector2(relativeWindowPosition), Vector2(framebufferSize)),
              YScale(Float(-1, 1))),
         Vector2(windowSize))

\* The zoom step of mouseScrollEvent around projectedPosition.
ZoomTransformation(projectedPosition, offsetY, t) ==
    MatMul(MatMul(MatMul(Translation(projectedPosition),
                         Scaling(Vector2Fill(
                             FAdd(One, FMul(Float(1, 10), offsetY))))),
                  Translation(VNeg(projectedPosition))),
           t)

\* The text load() formats: "{}: {}x{}, {}".
MaxFilenameLength == 32

\* A faulty variant of FormatImageInfo: the path is used with its directories.
MutFormatImageInfoWholePath(filename, image) ==
    Substr0(filename, MaxFilenameLength)
        \o << ":", " " >> \o FormatInt(image.size[1])
        \o << "x" >> \o FormatInt(image.size[2])
        \o << ",", " " >> \o PixelFormatName(image.format)

FormatImageInfo(filename, image) ==
    Substr0(DirectoryFilename(filename), MaxFilenameLength)
        \o << ":", " " >> \o FormatInt(image.size[1])
        \o << "x" >> \o FormatInt(image.size[2])
        \o << ",", " " >> \o PixelFormatName(image.format)

\* The texture load() creates from the image.
UploadTexture(image) ==
    [created |-> TRUE, magnificationFilter |-> "Nearest",
     minificationFilter |-> "Linear", wrapping |-> "ClampToEdge",
     storage |-> image.size, image |-> image]

\* GL::Renderer::enable / disable / setBlendFunction
RendererSet(r, feature, on) ==
    CASE feature = "DepthTest" -> [r EXCEPT !.depthTest = on]
      [] feature = "Blending" -> [r EXCEPT !.blending = on]

RendererEnable(r, feature) == RendererSet(r, feature, TRUE)
RendererDisable(r, feature) == RendererSet(r, feature, FALSE)
SetBlendFunction(r, source, destination) ==
    [r EXCEPT !.blendFunction = << source, destination >>]

\* Handlers that are no input events accept nothing and request no redraw.
NoInputOutcome == accepted' = FALSE /\ redrawRequested' = FALSE

(* ------------------------------- handlers ------------------------------ *)

\* A faulty variant of UiRenderStates: blending is left enabled after the UI is drawn.
MutUiRenderStatesBlendingLeftOn(r) ==
    LET r1 == RendererDisable(r, "DepthTest")
        r2 == RendererEnable(r1, "Blending")
        r3 == SetBlendFunction(r2, "One", "OneMinusSourceAlpha")
        r4 == SetBlendFunction(r3, "One", "Zero")
        r6 == RendererEnable(r4, "DepthTest")
    IN  [ui |-> r3, after |-> r6]

\* The renderer calls drawEvent makes around _ui->draw(), starting from
\* state r: the state the UI is drawn under, and the state left behind.
UiRenderStates(r) ==
    LET r1 == RendererDisable(r, "DepthTest")
        r2 == RendererEnable(r1, "Blending")
        r3 == SetBlendFunction(r2, "One", "OneMinusSourceAlpha")
        \* _ui->draw() happens here, under r3
        r4 == SetBlendFunction(r3, "One", "Zero")
        r5 == RendererDisable(r4, "Blending")
        r6 == RendererEnable(r5, "DepthTest")
    IN  [ui |-> r3, after |-> r6]

\* ImagePlayer::drawEvent
drawEvent ==
    LET r3 == UiRenderStates(renderer).ui
        r6 == UiRenderStates(renderer).after
    IN  /\ event' = [BaseEvent EXCEPT !.kind = "draw"]
        /\ drawLog' =
              << [call |-> "clear", renderer |-> renderer,
                  matrix |-> Matrix3Identity, texture |-> NoCreate,
                  plane |-> BaseUiPlane],
                 [call |-> "square", renderer |-> renderer,
                  matrix |-> MatMul(projection, transformation),
                  texture |-> texture, plane |-> BaseUiPlane],
                 [call |-> "ui", renderer |-> r3,
                  matrix |-> Matrix3Identity, texture |-> NoCreate,
                  plane |-> baseUiPlane] >>
        /\ renderer' = r6
        /\ NoInputOutcome
        /\ UNCHANGED << transformation, projection, imageSize, imageInfo,
                        texture, baseUiPlane, windowSize, framebufferSize,
                        controlsVisible, viewOps >>

\* ImagePlayer::setControlsVisible, applied to a plane
SetLabelVisible(plane, visible) == [plane EXCEPT !.visible = visible]

\* A faulty variant of RecreatedPlane: the text is not set on the new label.
MutRecreatedPlaneNoText(visible, text) ==
    SetLabelVisible(BaseUiPlane, visible)

\* The plane viewportEvent leaves: a new BaseUiPlane (initializeUi), then
\* setControlsVisible(visible), then imageInfo.setText(text).
RecreatedPlane(visible, text) ==
    LET plane0 == BaseUiPlane
        plane1 == SetLabelVisible(plane0, visible)
        plane2 == [plane1 EXCEPT !.text = text]
    IN  plane2

\* ImagePlayer::viewportEvent; the application has the event's sizes.
viewportEvent(config) ==
    LET plane2 == RecreatedPlane(controlsVisible, imageInfo)
    IN  /\ event' = [BaseEvent EXCEPT !.kind = "viewport",
                        !.windowSize = config.windowSize,
                        !.framebufferSize = config.framebufferSize]
        /\ windowSize' = config.windowSize
        /\ framebufferSize' = config.framebufferSize
        /\ baseUiPlane' = plane2
        /\ projection' = Projection(Vector2(config.framebufferSize))
        /\ drawLog' = << >>
        /\ NoInputOutcome
        /\ UNCHANGED << transformation, imageSize, imageInfo, texture,
                        renderer, controlsVisible, viewOps >>

\* ImagePlayer::keyPressEvent
keyPressEvent(key) ==
    /\ event' = [BaseEvent EXCEPT !.kind = "keyPress", !.key = key]
    /\ IF key = "NumZero"
       THEN /\ transformation' = DefaultTransformation(imageSize)
            /\ accepted' = TRUE
            /\ redrawRequested' = TRUE
       ELSE /\ UNCHANGED transformation
            /\ accepted' = FALSE
            /\ redrawRequested' = FALSE
    /\ drawLog' = << >>
    /\ UNCHANGED << projection, imageSize, imageInfo, texture, baseUiPlane,
                    renderer, windowSize, framebufferSize, controlsVisible,
                    viewOps >>

\* ImagePlayer::mousePressEvent; uiHandled is what _ui->handlePressEvent
\* returns.
mousePressEvent(uiHandled) ==
    /\ event' = [BaseEvent EXCEPT !.kind = "mousePress",
                    !.uiHandled = uiHandled]
    /\ redrawRequested' = uiHandled
    /\ accepted' = uiHandled
    /\ drawLog' = << >>
    /\ UNCHANGED << transformation, projection, imageSize, imageInfo,
                    texture, baseUiPlane, renderer, windowSize,
                    framebufferSize, controlsVisible, viewOps >>

\* ImagePlayer::mouseReleaseEvent; uiHandled is what _ui->handleReleaseEvent
\* returns.
mouseReleaseEvent(uiHandled) ==
    /\ event' = [BaseEvent EXCEPT !.kind = "mouseRelease",
                    !.uiHandled = uiHandled]
    /\ redrawRequested' = uiHandled
    /\ accepted' = uiHandled
    /\ drawLog' = << >>
    /\ UNCHANGED << transformation, projection, imageSize, imageInfo,
                    texture, baseUiPlane, renderer, windowSize,
                    framebufferSize, controlsVisible, viewOps >>

\* A faulty variant of MouseMoveBranch: the left button is looked at before the UI.
MutMouseMoveBranchButtonFirst(uiHandled, left) ==
    IF left THEN "pan" ELSE IF uiHandled THEN "ui" ELSE "return"

\* The branch mouseMoveEvent takes: the UI handled the event, the left
\* button is not held, or the view is panned.
MouseMoveBranch(uiHandled, left) ==
    IF uiHandled THEN "ui" ELSE IF ~left THEN "return" ELSE "pan"

\* ImagePlayer::mouseMoveEvent; uiHandled is what _ui->handleMoveEvent
\* returns, left whether event.buttons() has Button::Left.
mouseMoveEvent(uiHandled, left, relativePosition) ==
    /\ event' = [BaseEvent EXCEPT !.kind = "mouseMove",
                    !.uiHandled = uiHandled, !.left = left,
                    !.relativePosition = relativePosition]
    /\ IF MouseMoveBranch(uiHandled, left) = "ui"
       THEN /\ redrawRequested' = TRUE
            /\ accepted' = TRUE
            /\ UNCHANGED << transformation, viewOps >>
       ELSE IF MouseMoveBranch(uiHandled, left) = "return"
       THEN /\ redrawRequested' = FALSE
            /\ accepted' = FALSE
            /\ UNCHANGED << transformation, viewOps >>
       ELSE /\ viewOps < MaxViewOps
            /\ viewOps' = viewOps + 1
            /\ LET delta == unprojectRelative(relativePosition)
               IN  transformation' =
                       MatMul(Translation(delta), transformation)
            /\ accepted' = TRUE
            /\ redrawRequested' = TRUE
    /\ drawLog' = << >>
    /\ UNCHANGED << projection, imageSize, imageInfo, texture, baseUiPlane,
                    renderer, windowSize, framebufferSize, controlsVisible >>

\* ImagePlayer::mouseScrollEvent
mouseScrollEvent(position, offsetY) ==
    /\ event' = [BaseEvent EXCEPT !.kind = "mouseScroll",
                    !.position = position, !.offsetY = offsetY]
    /\ IF offsetY = Zero
       THEN /\ redrawRequested' = FALSE
            /\ accepted' = FALSE
            /\ UNCHANGED << transformation, viewOps >>
       ELSE /\ viewOps < MaxViewOps
            /\ viewOps' = viewOps + 1
            /\ LET projectedPosition == unproject(position)
               IN  transformation' =
                       ZoomTransformation(projectedPosition, offsetY,
                                          transformation)
            /\ accepted' = TRUE
            /\ redrawRequested' = TRUE
    /\ drawLog' = << >>
    /\ UNCHANGED << projection, imageSize, imageInfo, texture, baseUiPlane,
                    renderer, windowSize, framebufferSize, controlsVisible >>

\* A faulty variant of load: a failed import clears the texture and the overlay.
MutLoadClearsOnFailure(filename, image) ==
    /\ event' = [BaseEvent EXCEPT !.kind = "load", !.filename = filename,
                    !.image = image]
    /\ IF ~image.present
       THEN /\ texture' = NoCreate
            /\ imageInfo' = << >>
            /\ baseUiPlane' = [baseUiPlane EXCEPT !.text = << >>]
            /\ UNCHANGED << imageSize, transformation >>
       ELSE /\ texture' = UploadTexture(image)
            /\ imageSize' = image.size
            /\ transformation' =
                  IF transformation = Matrix3Identity
                  THEN DefaultTransformation(image.size)
                  ELSE transformation
            /\ imageInfo' = FormatImageInfo(filename, image)
            /\ baseUiPlane' = [baseUiPlane EXCEPT !.text = imageInfo']
    /\ drawLog' = << >>
    /\ NoInputOutcome
    /\ UNCHANGED << projection, renderer, windowSize, framebufferSize,
                    controlsVisible, viewOps >>

\* ImagePlayer::load; image is what importer.image2D(0) returns.
load(filename, image) ==
    /\ event' = [BaseEvent EXCEPT !.kind = "load", !.filename = filename,
                    !.image = image]
    /\ IF ~image.present
       THEN UNCHANGED << texture, imageSize, transformation, imageInfo,
                         baseUiPlane >>
       ELSE /\ texture' = UploadTexture(image)
            /\ imageSize' = image.size
            /\ transformation' =
                  IF transformation = Matrix3Identity
                  THEN DefaultTransformation(image.size)
                  ELSE transformation
            /\ imageInfo' = FormatImageInfo(filename, image)
            /\ baseUiPlane' = [baseUiPlane EXCEPT !.text = imageInfo']
    /\ drawLog' = << >>
    /\ NoInputOutcome
    /\ UNCHANGED << projection, renderer, windowSize, framebufferSize,
                    controlsVisible, viewOps >>

\* ImagePlayer::setControlsVisible, called by the application with the new
\* value of its controlsVisible() flag.
setControlsVisible(visible) ==
    /\ event' = [BaseEvent EXCEPT !.kind = "setControlsVisible",
                    !.visible = visible]
    /\ controlsVisible' = visible
    /\ baseUiPlane' = SetLabelVisible(baseUiPlane, visible)
    /\ drawLog' = << >>
    /\ NoInputOutcome
    /\ UNCHANGED << transformation, projection, imageSize, imageInfo,
                    texture, renderer, windowSize, framebufferSize, viewOps >>

Next ==
    \/ drawEvent
    \/ \E config \in WindowConfigs : viewportEvent(config)
    \/ \E key \in Keys : keyPressEvent(key)
    \/ \E uiHandled \in BOOLEAN : mousePressEvent(uiHandled)
    \/ \E uiHandled \in BOOLEAN : mouseReleaseEvent(uiHandled)
    \/ \E uiHandled \in BOOLEAN, left \in BOOLEAN,
          relativePosition \in RelativePositions :
          mouseMoveEvent(uiHandled, left, relativePosition)
    \/ \E position \in ScrollPositions, offsetY \in ScrollOffsets :
          mouseScrollEvent(position, offsetY)
    \/ \E file \in Files : load(file.filename, file.image)
    \/ \E visible \in BOOLEAN : setControlsVisible(visible)

Spec == Init /\ [][Next]_vars

(* ------------------------------ properties ----------------------------- *)

\* scaling(size/2) written out, for a Vector2i size.
HalfSizeScaling(size) ==
    << << Float(size[1], 2), Zero, Zero >>,
       << Zero, Float(size[2], 2), Zero >>,
       << Zero, Zero, One >> >>

\* C1: a key press of NumZero sets the transformation to scaling(imageSize/2)
\* of the stored image size whatever the transformation was before, accepts
\* the event and requests a redraw, and a second press right after the first
\* changes nothing of the view; a press of another key leaves the
\* transformation unchanged, is not accepted and requests no redraw.
ResetViewHotkey ==
    [][event'.kind = "keyPress" =>
          IF event'.key = "NumZero"
          THEN /\ transformation' = HalfSizeScaling(imageSize)
               /\ imageSize' = imageSize
               /\ accepted'
               /\ redrawRequested'
               /\ (event.kind = "keyPress" /\ event.key = "NumZero"
                      => view' = view)
          ELSE /\ transformation' = transformation
               /\ ~accepted'
               /\ ~redrawRequested']_vars

\* Witness of C1: the hotkey was pressed after pan / zoom steps on a loaded
\* 12x6 image, and the view is back at scaling(6, 3).
ResetViewHotkeyWitness ==
    /\ event.kind = "keyPress"
    /\ event.key = "NumZero"
    /\ viewOps > 0
    /\ imageSize = << 12, 6 >>
    /\ transformation = Scaling(<< Float(6, 1), Float(3, 1) >>)
    /\ accepted
    /\ redrawRequested

\* delta of a drag: relativePosition*framebufferSize/windowSize, Y negated.
DragDelta(rel) ==
    << Float(rel[1] * framebufferSize[1], windowSize[1]),
       Float(-(rel[2] * framebufferSize[2]), windowSize[2]) >>

\* C2: a mouse move the UI does not handle, with the left button held, makes
\* the transformation translation(delta)*old: the scale columns are unchanged
\* and the translation moves by delta; the event is accepted and a redraw
\* requested.  Without the left button nothing changes, the event is not
\* accepted and no redraw is requested.
PanByMouseDrag ==
    [][(event'.kind = "mouseMove" /\ ~event'.uiHandled) =>
          IF event'.left
          THEN LET delta == DragDelta(event'.relativePosition)
               IN  /\ transformation' =
                          MatMul(Translation(delta), transformation)
                   /\ transformation'[1] = transformation[1]
                   /\ transformation'[2] = transformation[2]
                   /\ transformation'[3] =
                          << FAdd(transformation[3][1], delta[1]),
                             FAdd(transformation[3][2], delta[2]), One >>
                   /\ accepted'
                   /\ redrawRequested'
          ELSE /\ transformation' = transformation
               /\ ~accepted'
               /\ ~redrawRequested']_vars

\* Witness of C2: a drag in the HiDPI window panned a loaded image.
PanByMouseDragWitness ==
    /\ event.kind = "mouseMove"
    /\ ~event.uiHandled
    /\ event.left
    /\ framebufferSize # windowSize
    /\ texture.created
    /\ transformation[3] = << Float(2, 1), Float(4, 1), One >>
    /\ accepted

\* P of a scroll at window position p: (p/windowSize - 0.5)*framebufferSize,
\* Y negated.
SelectionPoint(p) ==
    << FMul(FSub(Float(p[1], windowSize[1]), Float(1, 2)),
            Float(framebufferSize[1], 1)),
       FNeg(FMul(FSub(Float(p[2], windowSize[2]), Float(1, 2)),
                 Float(framebufferSize[2], 1))) >>

\* Where the matrix m draws the point p of the square: the xy part of
\* m*(p, 1).
TransformPoint(m, p) ==
    << FAdd(FAdd(FMul(m[1][1], p[1]), FMul(m[2][1], p[2])), m[3][1]),
       FAdd(FAdd(FMul(m[1][2], p[1]), FMul(m[2][2], p[2])), m[3][2]) >>

\* Corners and center of the square the image is drawn on.
ProbePoints ==
    { Vector2(q) : q \in { << -1, -1 >>, << 1, -1 >>, << 1, 1 >>,
                           << -1, 1 >>, << 0, 0 >> } }

\* C3: a scroll with a non-zero vertical offset y at window position p makes
\* the transformation translation(P)*scaling(1 + 0.1*y)*translation(-P)*old;
\* every drawn point's offset from P is multiplied by 1 + 0.1*y, so what was
\* drawn at P stays at P; the event is accepted and a redraw requested.  A
\* scroll with a zero vertical offset changes nothing, is not accepted and
\* requests no redraw.
ZoomToSelectionPoint ==
    [][event'.kind = "mouseScroll" =>
          IF event'.offsetY # Zero
          THEN LET P == SelectionPoint(event'.position)
                   s == FAdd(One, FDiv(event'.offsetY, Float(10, 1)))
               IN  /\ transformation' =
                          MatMul(Translation(P),
                              MatMul(Scaling(<< s, s >>),
                                  MatMul(Translation(VNeg(P)),
                                         transformation)))
                   /\ \A q \in ProbePoints :
                          LET before == TransformPoint(transformation, q)
                              after == TransformPoint(transformation', q)
                          IN  /\ VSub(after, P) =
                                     VMul(<< s, s >>, VSub(before, P))
                              /\ before = P => after = P
                   /\ accepted'
                   /\ redrawRequested'
          ELSE /\ transformation' = transformation
               /\ ~accepted'
               /\ ~redrawRequested']_vars

\* Witness of C3: a loaded image was zoomed by a scroll after another pan or
\* zoom step, around a point that is not the origin.
ZoomToSelectionPointWitness ==
    /\ event.kind = "mouseScroll"
    /\ event.offsetY = Float(-1, 1)
    /\ SelectionPoint(event.position) = << Float(4, 1), Float(4, 1) >>
    /\ texture.created
    /\ viewOps = 2
    /\ transformation[1][1] # transformation[2][2]
    /\ accepted

\* C4: when the UI handled a mouse press, release or move event, the event is
\* accepted, a redraw is requested and the transformation is unchanged, also
\* for a move with the left button held.  Press and release events never
\* change the transformation or the projection, and when the UI did not
\* handle them they are not accepted and request no redraw.
UiHasPriority ==
    [][/\ (event'.kind \in { "mousePress", "mouseRelease", "mouseMove" }
              /\ event'.uiHandled)
          => /\ accepted'
             /\ redrawRequested'
             /\ transformation' = transformation
       /\ event'.kind \in { "mousePress", "mouseRelease" }
          => /\ transformation' = transformation
             /\ projection' = projection
             /\ (~event'.uiHandled => ~accepted' /\ ~redrawRequested')]_vars

\* Witness of C4: the UI handled a move with the left button held while a
\* pan step was still possible.
UiHasPriorityWitness ==
    /\ event.kind = "mouseMove"
    /\ event.uiHandled
    /\ event.left
    /\ viewOps < MaxViewOps
    /\ texture.created
    /\ accepted
    /\ redrawRequested

Min(a, b) == IF a < b THEN a ELSE b

\* The value of a sequence of decimal digits.
RECURSIVE DecimalValue(_)
DecimalValue(s) ==
    IF s = << >> THEN 0
    ELSE 10 * DecimalValue(SubSeq(s, 1, Len(s) - 1))
         + (CHOOSE d \in 0..9 :
                << "0", "1", "2", "3", "4", "5", "6", "7", "8", "9" >>[d + 1]
                    = s[Len(s)])

IsDecimalOf(s, n) ==
    /\ Len(s) >= 1
    /\ \A i \in 1..Len(s) :
          s[i] \in { "0", "1", "2", "3", "4", "5", "6", "7", "8", "9" }
    /\ Len(s) > 1 => s[1] # "0"
    /\ DecimalValue(s) = n

\* name is the filename component of path cut to its first 32 characters.
IsCutFilename(name, path) ==
    \E i \in 0..Len(path) :
        /\ i = 0 \/ path[i] = "/"
        /\ \A k \in (i + 1)..Len(path) : path[k] # "/"
        /\ Len(name) = Min(32, Len(path) - i)
        /\ \A k \in 1..Len(name) : name[k] = path[i + k]

\* text is "<name>: <w>x<h>, <f>".
IsImageInfo(text, path, size, formatName) ==
    \E n \in 0..Len(text), lw \in 1..5, lh \in 1..5 :
        /\ Len(text) = n + 2 + lw + 1 + lh + 2 + Len(formatName)
        /\ IsCutFilename(SubSeq(text, 1, n), path)
        /\ SubSeq(text, n + 1, n + 2) = << ":", " " >>
        /\ IsDecimalOf(SubSeq(text, n + 3, n + 2 + lw), size[1])
        /\ text[n + 3 + lw] = "x"
        /\ IsDecimalOf(SubSeq(text, n + 4 + lw, n + 3 + lw + lh), size[2])
        /\ SubSeq(text, n + 4 + lw + lh, n + 5 + lw + lh) = << ",", " " >>
        /\ SubSeq(text, n + 6 + lw + lh, Len(text)) = formatName

\* C5: after a load that received an image of size w x h and format f from
\* the file path, the stored image info and the label text are both
\* "<name>: <w>x<h>, <f>" with <name> the filename component of path cut to
\* 32 characters, and the stored image size is (w, h).
OverlayContentsAfterLoad ==
    (event.kind = "load" /\ event.image.present) =>
        /\ imageInfo = baseUiPlane.text
        /\ IsImageInfo(imageInfo, event.filename, event.image.size,
                       PixelFormatName(event.image.format))
        /\ imageSize = event.image.size

\* Witness of C5: the file with the 40-character name was loaded and the
\* label shows 32 characters of it, then the size 12x6.
OverlayContentsAfterLoadWitness ==
    /\ event.kind = "load"
    /\ event.image.present
    /\ event.filename = PathLong
    /\ SubSeq(baseUiPlane.text, 31, 40)
          = << "4", "5", ":", " ", "1", "2", "x", "6", ",", " " >>

\* C6: after a load that received an image, the transformation is
\* scaling(imageSize/2) of the image just loaded, whatever came before.
DefaultTransformationAfterLoad ==
    (event.kind = "load" /\ event.image.present) =>
        transformation = HalfSizeScaling(event.image.size)

\* C7: a load whose importer delivers no image leaves the texture, the image
\* size, the transformation, the projection, the image info and the label
\* text unchanged.
FailedLoadChangesNothing ==
    [][(event'.kind = "load" /\ ~event'.image.present) =>
          /\ texture' = texture
          /\ imageSize' = imageSize
          /\ transformation' = transformation
          /\ projection' = projection
          /\ imageInfo' = imageInfo
          /\ baseUiPlane'.text = baseUiPlane.text]_vars

\* Witness of C7: a load failed after an earlier load had succeeded, and
\* the earlier image and its overlay text are still there.
FailedLoadChangesNothingWitness ==
    /\ event.kind = "load"
    /\ ~event.image.present
    /\ texture.created
    /\ texture.image.size = imageSize
    /\ imageInfo # << >>
    /\ baseUiPlane.text = imageInfo

\* C8: the label text always equals the stored image info; and when a
\* viewport event returns, the label's visibility is controlsVisible(), the
\* projection is projection(new framebuffer size), and the transformation,
\* the image size and the image info are unchanged.
ViewportPreservesOverlay ==
    /\ baseUiPlane.text = imageInfo
    /\ [][/\ baseUiPlane'.text = imageInfo'
          /\ event'.kind = "viewport"
             => /\ baseUiPlane'.visible = controlsVisible'
                /\ controlsVisible' = controlsVisible
                /\ projection' =
                      << << Float(2, event'.framebufferSize[1]), Zero, Zero >>,
                         << Zero, Float(2, event'.framebufferSize[2]), Zero >>,
                         << Zero, Zero, One >> >>
                /\ transformation' = transformation
                /\ imageSize' = imageSize
                /\ imageInfo' = imageInfo]_vars

\* Witness of C8: the window was resized to the HiDPI size with an image
\* loaded and the controls hidden; the new label is hidden and shows the
\* image info.
ViewportPreservesOverlayWitness ==
    /\ event.kind = "viewport"
    /\ event.framebufferSize = << 4, 8 >>
    /\ imageInfo # << >>
    /\ baseUiPlane.text = imageInfo
    /\ ~controlsVisible
    /\ ~baseUiPlane.visible
    /\ projection = Scaling(<< Float(1, 2), Float(1, 4) >>)

\* C9: a draw event draws the square with projection*transformation and the
\* current texture, then the UI with depth test disabled and (One,
\* OneMinusSourceAlpha) blending enabled, leaves depth test enabled, blending
\* disabled and the blend function (One, Zero), and changes none of the
\* transformation, projection, image size and image info.
DrawKeepsViewState ==
    [][event'.kind = "draw" =>
          /\ \E i, j \in 1..Len(drawLog') :
                /\ i < j
                /\ drawLog'[i].call = "square"
                /\ drawLog'[i].matrix = MatMul(projection, transformation)
                /\ drawLog'[i].texture = texture
                /\ drawLog'[j].call = "ui"
                /\ drawLog'[j].plane = baseUiPlane
                /\ drawLog'[j].renderer =
                      [depthTest |-> FALSE, blending |-> TRUE,
                       blendFunction |-> << "One", "OneMinusSourceAlpha" >>]
          /\ renderer' =
                [depthTest |-> TRUE, blending |-> FALSE,
                 blendFunction |-> << "One", "Zero" >>]
          /\ view' = view
          /\ texture' = texture]_vars

\* Witness of C9: a panned or zoomed loaded image was drawn.
DrawKeepsViewStateWitness ==
    /\ event.kind = "draw"
    /\ texture.created
    /\ viewOps > 0
    /\ Len(drawLog) = 3
    /\ drawLog[2].matrix = MatMul(projection, transformation)
    /\ drawLog[2].matrix # drawLog[1].matrix
    /\ renderer.depthTest

====
